---- MODULE Spec2Model ----
(***************************************************************************)
(* Glowy API (app/main.py): CRUD over the "producto" table.                *)
(*                                                                         *)
(* Text of nombre / descripcion is kept run-length encoded: a sequence of  *)
(* runs [c |-> character, n |-> repetitions].  The validators only trim    *)
(* whitespace and measure length, which the encoding preserves exactly.    *)
(* Text of categoria is a sequence of one-character strings, because       *)
(* str.title() rewrites single characters.                                 *)
(* A precio is an integer number of thousandths (0.004 is 4, 28.5 is       *)
(* 28500).                                                                 *)
(*                                                                         *)
(* Every request issues at most one statement against the table; parsing   *)
(* the body and building the response touch request-local data only.  Any  *)
(* interleaving of concurrent requests is therefore equivalent to the      *)
(* requests taken one at a time in the order of their statements, and a    *)
(* request is one action.                                                  *)
(***************************************************************************)
EXTENDS Integers, Sequences, FiniteSets, TLC

\* ------------------------------------------------------------ bounds ----
\* number of rows the table ever receives
MaxId == 2

\* ids a request may address: every id the table can assign and one it never does
Ids == 1..(MaxId + 1)

\* ------------------------------------------- limits set by the source ----
MinNombreLen == 3

MaxNombreLen == 150

MaxPrecio == 999990

MaxStock == 9999

MaxDescripcionLen == 500

\* ---------------------------------------------------- text primitives ----
Whitespace == {" ", "\t"}

Lowers == <<"a","b","c","d","e","f","g","h","i","j","k","l","m",
            "n","o","p","q","r","s","t","u","v","w","x","y","z">>

Uppers == <<"A","B","C","D","E","F","G","H","I","J","K","L","M",
            "N","O","P","Q","R","S","T","U","V","W","X","Y","Z">>

LowerSet == {Lowers[i] : i \in 1..26}

UpperSet == {Uppers[i] : i \in 1..26}

UpperOf == [c \in LowerSet |-> Uppers[CHOOSE i \in 1..26 : Lowers[i] = c]]

LowerOf == [c \in UpperSet |-> Lowers[CHOOSE i \in 1..26 : Uppers[i] = c]]

IsCased(c) == c \in LowerSet \/ c \in UpperSet

ToUpper(c) == IF c \in LowerSet THEN UpperOf[c] ELSE c

ToLower(c) == IF c \in UpperSet THEN LowerOf[c] ELSE c

\* str.strip() on a character sequence
strip(s) ==
    LET keep == {i \in 1..Len(s) : s[i] \notin Whitespace}
    IN  IF keep = {} THEN <<>>
        ELSE LET lo == CHOOSE i \in keep : \A j \in keep : i <= j
                 hi == CHOOSE i \in keep : \A j \in keep : i >= j
             IN  SubSeq(s, lo, hi)

\* str.capitalize() in place of str.title(): only the first character of the
\* text is upper-cased
title_Capitalize(s) ==
    [i \in 1..Len(s) |-> IF i = 1 THEN ToUpper(s[i]) ELSE ToLower(s[i])]

\* str.title(): the first cased character of every run of cased characters
\* is upper-cased, the following ones are lower-cased, the rest is kept
title(s) ==
    [i \in 1..Len(s) |->
        IF ~IsCased(s[i]) THEN s[i]
        ELSE IF i > 1 /\ IsCased(s[i-1]) THEN ToLower(s[i]) ELSE ToUpper(s[i])]

\* str.lower(), used only to state case-insensitive equality
lower(s) == [i \in 1..Len(s) |-> ToLower(s[i])]

\* len() of run-length encoded text
RECURSIVE lenRuns(_)
lenRuns(r) == IF r = <<>> THEN 0 ELSE Head(r).n + lenRuns(Tail(r))

\* str.strip() on run-length encoded text
stripRuns(r) ==
    LET keep == {i \in 1..Len(r) : r[i].c \notin Whitespace}
    IN  IF keep = {} THEN <<>>
        ELSE LET lo == CHOOSE i \in keep : \A j \in keep : i <= j
                 hi == CHOOSE i \in keep : \A j \in keep : i >= j
             IN  SubSeq(r, lo, hi)

\* Optional[str]
None == [some |-> FALSE, s |-> <<>>]

Some(r) == [some |-> TRUE, s |-> r]

\* ---------------------------------------------------------- validators ----
Reject(v) == [ok |-> FALSE, v |-> v]

Accept(v) == [ok |-> TRUE, v |-> v]

validar_nombre(v) ==
    IF v = <<>> \/ stripRuns(v) = <<>> THEN Reject(v)
    ELSE LET t == stripRuns(v)
         IN  IF lenRuns(t) < MinNombreLen THEN Reject(v)
             ELSE IF lenRuns(t) > MaxNombreLen THEN Reject(v)
             ELSE Accept(t)

categorias_validas ==
    { <<"S","e","r","u","m">>,
      <<"C","l","e","a","n","s","e","r">>,
      <<"M","o","i","s","t","u","r","i","z","e","r">>,
      <<"T","o","n","e","r">>,
      <<"S","u","n","s","c","r","e","e","n">>,
      <<"M","a","s","k">>,
      <<"E","x","f","o","l","i","a","t","o","r">>,
      <<"E","y","e"," ","C","r","e","a","m">>,
      <<"A","m","p","o","u","l","e">>,
      <<"E","s","s","e","n","c","e">> }

validar_categoria(v) ==
    IF v = <<>> \/ strip(v) = <<>> THEN Reject(v)
    ELSE LET t == strip(v)
         IN  IF title(t) \notin categorias_validas THEN Reject(v)
             ELSE Accept(title(t))

\* round(v, 2) on thousandths; the inputs of the model are never ties
round2(m) == ((m + 5) \div 10) * 10

validar_precio(v) ==
    IF v <= 0 THEN Reject(v)
    ELSE IF v > MaxPrecio THEN Reject(v)
    ELSE Accept(round2(v))

\* validar_stock without its upper limit
validar_stock_NoMax(v) ==
    IF v < 0 THEN Reject(v) ELSE Accept(v)

validar_stock(v) ==
    IF v < 0 THEN Reject(v)
    ELSE IF v > MaxStock THEN Reject(v)
    ELSE Accept(v)

validar_descripcion(v) ==
    IF ~v.some \/ stripRuns(v.s) = <<>> THEN Accept(None)
    ELSE LET t == stripRuns(v.s)
         IN  IF lenRuns(t) > MaxDescripcionLen THEN Reject(v)
             ELSE Accept(Some(t))

\* ProductoBase(**fields): every field validator runs; the model is built
\* only when all of them accept
ProductoBase(f) ==
    LET n == validar_nombre(f.nombre)
        c == validar_categoria(f.categoria)
        p == validar_precio(f.precio)
        s == validar_stock(f.stock)
        d == validar_descripcion(f.descripcion)
    IN  [ok |-> n.ok /\ c.ok /\ p.ok /\ s.ok /\ d.ok,
         v  |-> [nombre |-> n.v, categoria |-> c.v, precio |-> p.v,
                 stock |-> s.v, descripcion |-> d.v]]

\* Producto(id=..., **fields)
Producto(id, f) ==
    LET b == ProductoBase(f)
    IN  [ok |-> b.ok,
         v  |-> [id |-> id, nombre |-> b.v.nombre, categoria |-> b.v.categoria,
                 precio |-> b.v.precio, stock |-> b.v.stock,
                 descripcion |-> b.v.descripcion]]

\* -------------------------------------------------- request bodies ----
Run(c, n) == [c |-> c, n |-> n]

\* bodies 1..4 pass validation and give four different rows
Body1 ==
    [nombre |-> <<Run(" ", 1), Run("a", 3), Run(" ", 2)>>,
     categoria |-> <<"e","Y","e"," ","c","R","e","A","m">>,
     precio |-> 28500, stock |-> 75,
     descripcion |-> Some(<<Run(" ", 2)>>)]

Body2 ==
    [nombre |-> <<Run("\t", 1), Run("a", 150)>>,
     categoria |-> <<" ","S","E","R","U","M"," ">>, precio |-> 1234, stock |-> 0,
     descripcion |-> Some(<<Run(" ", 1), Run("x", 500), Run(" ", 1)>>)]

Body3 ==
    [nombre |-> <<Run("a", 1), Run(" ", 1), Run("b", 1)>>,
     categoria |-> <<"m","a","s","k">>, precio |-> 4, stock |-> 9999,
     descripcion |-> None]

Body4 ==
    [nombre |-> <<Run("b", 4)>>,
     categoria |-> <<"m","o","i","s","t","u","r","i","z","e","r">>,
     precio |-> 999986, stock |-> 1,
     descripcion |-> Some(<<Run("x", 1), Run(" ", 1), Run("y", 1)>>)]

\* bodies 5..8 pass validation too and differ from an earlier one in the
\* spelling of a field only; every later body breaks exactly one field rule
Bodies ==
    << Body1, Body2, Body3, Body4,
       [Body1 EXCEPT !.categoria = <<"E","y","e"," ","C","r","e","a","m">>],
       [Body1 EXCEPT !.categoria = <<"\t","E","Y","E"," ","C","R","E","A","M">>,
                     !.descripcion = None],
       [Body3 EXCEPT !.categoria = <<"M","A","s","K"," ">>, !.precio = 1],
       [Body4 EXCEPT !.precio = 999990, !.nombre = <<Run(" ", 1), Run("b", 4)>>],
       [Body1 EXCEPT !.nombre = <<Run(" ", 2), Run("a", 2), Run(" ", 1)>>],
       [Body1 EXCEPT !.nombre = <<Run("a", 151)>>],
       [Body1 EXCEPT !.nombre = <<Run(" ", 3)>>],
       [Body1 EXCEPT !.nombre = <<>>],
       [Body1 EXCEPT !.categoria = <<"l","o","t","i","o","n">>],
       [Body1 EXCEPT !.categoria = <<"e","y","e"," "," ","c","r","e","a","m">>],
       [Body1 EXCEPT !.categoria = <<"e","y","e","c","r","e","a","m">>],
       [Body1 EXCEPT !.categoria = <<"s","e","r","u","m","s">>],
       [Body1 EXCEPT !.categoria = <<" "," ">>],
       [Body1 EXCEPT !.precio = 0],
       [Body1 EXCEPT !.precio = 0 - 28500],
       [Body1 EXCEPT !.precio = 999994],
       [Body1 EXCEPT !.stock = 0 - 1],
       [Body1 EXCEPT !.stock = 10000],
       [Body1 EXCEPT !.descripcion = Some(<<Run("x", 501), Run(" ", 1)>>)] >>

BodyIds == 1..Len(Bodies)

\* ProductoCreate(**body) / ProductoUpdate(**body) of every body
Parsed == [b \in BodyIds |-> ProductoBase(Bodies[b])]

NoFields ==
    [nombre |-> <<>>, categoria |-> <<>>, precio |-> 0, stock |-> 0,
     descripcion |-> None]

\* ------------------------------------------------- persistence layer ----
\* app.database: one table with an auto-increment primary key
Fields(r) ==
    [nombre |-> r.nombre, categoria |-> r.categoria, precio |-> r.precio,
     stock |-> r.stock, descripcion |-> r.descripcion]

RowOf(st, id) ==
    [id |-> id, nombre |-> st[id].nombre, categoria |-> st[id].categoria,
     precio |-> st[id].precio, stock |-> st[id].stock,
     descripcion |-> st[id].descripcion]

fetch_all_productos(st) == {RowOf(st, id) : id \in DOMAIN st}

fetch_producto_by_id(st, id) ==
    IF id \in DOMAIN st THEN {RowOf(st, id)} ELSE {}

\* an id computed from the rows present instead of the counter
NewId_MaxPlusOne(st, next) ==
    IF DOMAIN st = {} THEN 1
    ELSE (CHOOSE i \in DOMAIN st : \A j \in DOMAIN st : i >= j) + 1

NewId(st, next) == next

insert_producto(st, next, f) ==
    LET id == NewId(st, next)
    IN  [store |-> [i \in DOMAIN st \cup {id} |-> IF i = id THEN Fields(f) ELSE st[i]],
         id |-> id, next |-> next + 1]

update_producto(st, id, f) ==
    IF id \in DOMAIN st
    THEN [store |-> [st EXCEPT ![id] = Fields(f)], ok |-> TRUE]
    ELSE [store |-> st, ok |-> FALSE]

delete_producto(st, id) ==
    IF id \in DOMAIN st
    THEN [store |-> [i \in DOMAIN st \ {id} |-> st[i]], ok |-> TRUE]
    ELSE [store |-> st, ok |-> FALSE]

\* ---------------------------------------------------------- handlers ----
\* what a handler leaves behind: the table, the counter, whether a statement
\* changed the table, and the HTTP response
Outcome(st, next, id, wrote, status, result) ==
    [store |-> st, next |-> next, id |-> id, wrote |-> wrote,
     status |-> status, result |-> result]

listar_productos_do(st, next) ==
    LET rows == fetch_all_productos(st)
        ps   == {Producto(row.id, row) : row \in rows}
    IN  IF \A p \in ps : p.ok
        THEN Outcome(st, next, 0, FALSE, 200, {p.v : p \in ps})
        ELSE Outcome(st, next, 0, FALSE, 500, {})

obtener_producto_do(st, next, producto_id) ==
    LET producto == fetch_producto_by_id(st, producto_id)
    IN  IF producto = {} THEN Outcome(st, next, producto_id, FALSE, 404, {})
        ELSE LET row == CHOOSE row \in producto : TRUE
                 p   == Producto(row.id, row)
             IN  IF p.ok THEN Outcome(st, next, producto_id, FALSE, 200, {p.v})
                 ELSE Outcome(st, next, producto_id, FALSE, 500, {})

crear_producto_do(st, next, producto) ==
    LET ins == insert_producto(st, next, producto)
        p   == Producto(ins.id, producto)
    IN  IF p.ok THEN Outcome(ins.store, ins.next, ins.id, TRUE, 201, {p.v})
        ELSE Outcome(ins.store, ins.next, ins.id, TRUE, 500, {})

\* actualizar_producto without the check of update_producto's result
actualizar_producto_do_No404(st, next, producto_id, producto) ==
    LET upd == update_producto(st, producto_id, producto)
        p   == Producto(producto_id, producto)
    IN  IF p.ok THEN Outcome(upd.store, next, producto_id, upd.ok, 200, {p.v})
        ELSE Outcome(upd.store, next, producto_id, upd.ok, 500, {})

actualizar_producto_do(st, next, producto_id, producto) ==
    LET upd == update_producto(st, producto_id, producto)
    IN  IF ~upd.ok THEN Outcome(upd.store, next, producto_id, FALSE, 404, {})
        ELSE LET p == Producto(producto_id, producto)
             IN  IF p.ok THEN Outcome(upd.store, next, producto_id, TRUE, 200, {p.v})
                 ELSE Outcome(upd.store, next, producto_id, TRUE, 500, {})

\* eliminar_producto without the check of delete_producto's result
eliminar_producto_do_No404(st, next, producto_id) ==
    LET del == delete_producto(st, producto_id)
    IN  Outcome(del.store, next, producto_id, del.ok, 204, {})

eliminar_producto_do(st, next, producto_id) ==
    LET del == delete_producto(st, producto_id)
    IN  IF ~del.ok THEN Outcome(del.store, next, producto_id, FALSE, 404, {})
        ELSE Outcome(del.store, next, producto_id, TRUE, 204, {})

\* ------------------------------------------------------------- state ----
\* store, nextId: the table and its auto-increment counter
\* resp: the request served last and its response
\* issued, removed: history of the ids handed out by insert and of the ids
\* deleted
VARIABLES store, nextId, resp, issued, removed

vars == <<store, nextId, resp, issued, removed>>

NoRequest ==
    [method |-> "none", id |-> 0, body |-> 0, wrote |-> FALSE,
     status |-> 0, result |-> {}]

Served(method, body, o) ==
    [method |-> method, id |-> o.id, body |-> body, wrote |-> o.wrote,
     status |-> o.status, result |-> o.result]

Init ==
    /\ store = [i \in {} |-> NoFields]
    /\ nextId = 1
    /\ resp = NoRequest
    /\ issued = <<>>
    /\ removed = {}

\* GET /productos
listar_productos ==
    LET o == listar_productos_do(store, nextId)
    IN  /\ resp' = Served("LIST", 0, o)
        /\ UNCHANGED <<store, nextId, issued, removed>>

\* GET /productos/{producto_id}
obtener_producto ==
    \E producto_id \in Ids :
        LET o == obtener_producto_do(store, nextId, producto_id)
        IN  /\ resp' = Served("GET", 0, o)
            /\ UNCHANGED <<store, nextId, issued, removed>>

\* POST /productos: the body is parsed into ProductoCreate before the handler
\* runs; a validation error is answered with 422 and the handler never runs
crear_producto ==
    \E b \in BodyIds :
        LET producto == Parsed[b]
        IN  IF ~producto.ok
            THEN /\ resp' = Served("POST", b, Outcome(store, nextId, 0, FALSE, 422, {}))
                 /\ UNCHANGED <<store, nextId, issued, removed>>
            ELSE /\ nextId <= MaxId
                 /\ LET o == crear_producto_do(store, nextId, producto.v)
                    IN  /\ store' = o.store
                        /\ nextId' = o.next
                        /\ resp' = Served("POST", b, o)
                        /\ issued' = Append(issued, o.id)
                        /\ UNCHANGED removed

\* PUT /productos/{producto_id}: the body is parsed into ProductoUpdate first
actualizar_producto ==
    \E producto_id \in Ids : \E b \in BodyIds :
        LET producto == Parsed[b]
        IN  IF ~producto.ok
            THEN /\ resp' = Served("PUT", b,
                                   Outcome(store, nextId, producto_id, FALSE, 422, {}))
                 /\ UNCHANGED <<store, nextId, issued, removed>>
            ELSE LET o == actualizar_producto_do(store, nextId, producto_id, producto.v)
                 IN  /\ store' = o.store
                     /\ resp' = Served("PUT", b, o)
                     /\ UNCHANGED <<nextId, issued, removed>>

\* DELETE /productos/{producto_id}
eliminar_producto ==
    \E producto_id \in Ids :
        LET o == eliminar_producto_do(store, nextId, producto_id)
        IN  /\ store' = o.store
            /\ resp' = Served("DELETE", 0, o)
            /\ removed' = IF o.wrote THEN removed \cup {producto_id} ELSE removed
            /\ UNCHANGED <<nextId, issued>>

Next ==
    \/ listar_productos
    \/ obtener_producto
    \/ crear_producto
    \/ actualizar_producto
    \/ eliminar_producto

Spec == Init /\ [][Next]_vars

\* ------------------------------------- the rules of spec.md, section 3 ----
\* the canonical categories a text matches when case is ignored
CanonOf(v) == {c \in categorias_validas : lower(c) = lower(strip(v))}

Blank(d) == ~d.some \/ stripRuns(d.s) = <<>>

BodyValid(f) ==
    /\ lenRuns(stripRuns(f.nombre)) >= MinNombreLen
    /\ lenRuns(stripRuns(f.nombre)) <= MaxNombreLen
    /\ CanonOf(f.categoria) # {}
    /\ f.precio > 0
    /\ f.precio <= MaxPrecio
    /\ f.stock >= 0
    /\ f.stock <= MaxStock
    /\ Blank(f.descripcion) \/ lenRuns(stripRuns(f.descripcion.s)) <= MaxDescripcionLen

Normal(f) ==
    [nombre |-> stripRuns(f.nombre),
     categoria |-> CHOOSE c \in CanonOf(f.categoria) : TRUE,
     precio |-> round2(f.precio),
     stock |-> f.stock,
     descripcion |-> IF Blank(f.descripcion) THEN None
                     ELSE Some(stripRuns(f.descripcion.s))]

WithId(id, f) ==
    [id |-> id, nombre |-> f.nombre, categoria |-> f.categoria,
     precio |-> f.precio, stock |-> f.stock, descripcion |-> f.descripcion]

RowValid(r) ==
    /\ stripRuns(r.nombre) = r.nombre
    /\ lenRuns(r.nombre) >= MinNombreLen
    /\ lenRuns(r.nombre) <= MaxNombreLen
    /\ r.categoria \in categorias_validas
    /\ r.precio > 0
    /\ r.precio <= MaxPrecio
    /\ r.precio % 10 = 0
    /\ r.stock >= 0
    /\ r.stock <= MaxStock
    /\ \/ r.descripcion = None
       \/ /\ r.descripcion.some
          /\ r.descripcion.s # <<>>
          /\ stripRuns(r.descripcion.s) = r.descripcion.s
          /\ lenRuns(r.descripcion.s) <= MaxDescripcionLen

HasBody(r) == r.method \in {"POST", "PUT"}

\* ------------------------------------------------------------ claims ----

\* C1: after any sequence of POST, PUT and DELETE requests every row of the
\* table satisfies all field constraints at once (trimmed name of 3..150
\* characters, canonical category, 0 < price <= 999.99 with 2 decimals,
\* stock in 0..9999, description absent or non-empty trimmed text of at most
\* 500 characters).
C1_EveryRowValid == \A id \in DOMAIN store : RowValid(store[id])

\* C2: for every body that passes validation and is inserted by POST, a
\* following GET of the assigned id answers 200 with that id and the
\* normalized body.
C2_InsertGetRoundTrip ==
    [][ (/\ resp.method = "POST"
         /\ resp.wrote
         /\ resp'.method = "GET"
         /\ resp'.id = resp.id)
        => /\ resp'.status = 200
           /\ resp'.result = {WithId(resp.id, Normal(Bodies[resp.body]))} ]_vars

\* C3: a POST or PUT whose body breaks a field rule is answered with the
\* validation error (422, also when the id of the PUT does not exist) and
\* the table is the same before and after the request.
C3_InvalidBodyNeverPersists ==
    [][ (HasBody(resp') /\ ~BodyValid(Bodies[resp'.body]))
        => /\ resp'.status = 422
           /\ ~resp'.wrote
           /\ store' = store
           /\ nextId' = nextId ]_vars

C3_Witness ==
    /\ resp.method = "PUT"
    /\ resp.status = 422
    /\ resp.id \notin DOMAIN store
    /\ store # <<>>

\* C4: no two inserts ever receive the same id, also when the row that held
\* the id has been deleted in between.
C4_NoIdReuse ==
    \A i, j \in 1..Len(issued) : i # j => issued[i] # issued[j]

C4_Witness ==
    /\ Len(issued) >= 2
    /\ issued[1] \in removed
    /\ issued[Len(issued)] \in DOMAIN store

\* C5: a PUT with a valid body on an existing id answers 200 with the
\* normalized body, replaces all fields of that row with it and leaves the
\* id, every other row and the set of rows as they were.
C5_UpdateReplacesRow ==
    [][ (/\ resp'.method = "PUT"
         /\ BodyValid(Bodies[resp'.body])
         /\ resp'.id \in DOMAIN store)
        => /\ resp'.status = 200
           /\ resp'.result = {WithId(resp'.id, Normal(Bodies[resp'.body]))}
           /\ store' = [store EXCEPT ![resp'.id] = Normal(Bodies[resp'.body])] ]_vars

\* C6: a PUT with a valid body on an id that matches no row answers 404 and
\* leaves the table exactly as it was, the empty table included.
C6_UpdateMissingIsNotFound ==
    [][ (/\ resp'.method = "PUT"
         /\ BodyValid(Bodies[resp'.body])
         /\ resp'.id \notin DOMAIN store)
        => /\ resp'.status = 404
           /\ ~resp'.wrote
           /\ store' = store
           /\ nextId' = nextId ]_vars

C6_Witness ==
    /\ resp.method = "PUT"
    /\ resp.status = 404
    /\ store = <<>>
    /\ issued = <<>>

\* C7: DELETE of an id that matches no row answers 404 and leaves the table
\* unchanged; DELETE of an existing id answers 204 and removes exactly that
\* row; afterwards GET, PUT (with a valid body) and DELETE of that id answer
\* 404.
C7_DeleteContract ==
    [][ /\ resp'.method = "DELETE"
           => IF resp'.id \in DOMAIN store
              THEN /\ resp'.status = 204
                   /\ store' = [i \in DOMAIN store \ {resp'.id} |-> store[i]]
              ELSE /\ resp'.status = 404
                   /\ store' = store
        /\ (/\ resp'.id \in removed
            /\ \/ resp'.method \in {"GET", "DELETE"}
               \/ resp'.method = "PUT" /\ BodyValid(Bodies[resp'.body]))
           => /\ resp'.status = 404
              /\ store' = store ]_vars

C7_Witness ==
    /\ resp.method = "PUT"
    /\ resp.id \in removed
    /\ resp.status = 404
    /\ Len(issued) > Cardinality(removed)

\* C8: GET /productos never fails: it answers 200 with every stored row,
\* and with the empty sequence on the empty table.
C8_ListNeverFails ==
    resp.method = "LIST"
    => /\ resp.status = 200
       /\ resp.result = fetch_all_productos(store)

\* C9: a category that matches none of the ten canonical values when case
\* and surrounding whitespace are ignored is rejected; one that matches is
\* not rejected and is stored in the canonical title-case form.
C9_CategoryCanonical ==
    HasBody(resp)
    => LET f == Bodies[resp.body]
       IN  /\ CanonOf(f.categoria) = {} => resp.status = 422
           /\ BodyValid(f) => resp.status # 422
           /\ resp.wrote => /\ CanonOf(f.categoria) # {}
                            /\ store[resp.id].categoria \in CanonOf(f.categoria)

C9_Witness ==
    /\ resp.method = "POST"
    /\ resp.status = 201
    /\ Bodies[resp.body].categoria \notin categorias_validas
    /\ store[resp.id].categoria = <<"E","y","e"," ","C","r","e","a","m">>

\* C10: a request that has written to the table ends in its success
\* response: 201 with the row for POST, 200 with the row for PUT.
C10_WriteEndsInSuccess ==
    (HasBody(resp) /\ resp.wrote)
    => /\ resp.status = IF resp.method = "POST" THEN 201 ELSE 200
       /\ resp.result = {RowOf(store, resp.id)}

====
